---- MODULE Spec2Model ----
(***************************************************************************)
(* Model of ML_PORTAFOLIO_FEN: the Black-Litterman blender and the        *)
(* equilibrium return estimator of black_litterman_model.py, and the view *)
(* generator of machine_learning_strategies.py.                           *)
(*                                                                         *)
(* Real numbers are exact rationals <<n, d>> (d > 0, lowest terms): the    *)
(* model states what the formulas compute, not the rounding of float64.   *)
(***************************************************************************)
EXTENDS Integers, Sequences, FiniteSets

\***************************************************************************
\* Exact rational arithmetic (the arithmetic of the Python/numpy floats).
\***************************************************************************
Abs(x) == IF x < 0 THEN -x ELSE x

RECURSIVE GCD(_, _)
GCD(a, b) == IF b = 0 THEN a ELSE GCD(b, a % b)

Norm(n, d) ==
    LET g == GCD(Abs(n), Abs(d))
        s == IF d < 0 THEN -1 ELSE 1
    IN  <<s * (n \div g), s * (d \div g)>>

Rat(n, d) == Norm(n, d)
Zero == <<0, 1>>
One == <<1, 1>>

LCM(a, b) == (a \div GCD(a, b)) * b

RAdd(x, y) ==
    LET l == LCM(x[2], y[2])
    IN  Norm(x[1] * (l \div x[2]) + y[1] * (l \div y[2]), l)

RNeg(x) == <<-x[1], x[2]>>
RSub(x, y) == RAdd(x, RNeg(y))

RMul(x, y) ==
    LET g1 == GCD(Abs(x[1]), y[2])
        g2 == GCD(Abs(y[1]), x[2])
    IN  IF x[1] = 0 \/ y[1] = 0 THEN Zero
        ELSE <<(x[1] \div g1) * (y[1] \div g2), (x[2] \div g2) * (y[2] \div g1)>>

\* 1 / x, for x # 0
RInv(x) == IF x[1] < 0 THEN <<-x[2], -x[1]>> ELSE <<x[2], x[1]>>
RDiv(x, y) == RMul(x, RInv(y))

RLe(x, y) ==
    LET l == LCM(x[2], y[2])
    IN  x[1] * (l \div x[2]) <= y[1] * (l \div y[2])

RAbs(x) == <<Abs(x[1]), x[2]>>

RECURSIVE RSum(_)
RSum(s) == IF s = <<>> THEN Zero ELSE RAdd(Head(s), RSum(Tail(s)))

\***************************************************************************
\* Dense matrices: a sequence of rows, each a sequence of rationals.
\***************************************************************************

\* The sequence f as an explicit tuple (the same value, evaluated once).
Tuple(f) == SubSeq(f, 1, Len(f))
Dim(M) == Len(M)

\* np.eye(n)
Eye(n) == Tuple([i \in 1..n |-> Tuple([j \in 1..n |-> IF i = j THEN One ELSE Zero])])

\* np.diag(list)
Diag(v) == Tuple([i \in 1..Len(v) |-> Tuple([j \in 1..Len(v) |-> IF i = j THEN v[i] ELSE Zero])])

Transpose(M) == Tuple([i \in 1..Len(M) |-> Tuple([j \in 1..Len(M) |-> M[j][i]])])

\* scalar * matrix
Scale(c, M) == Tuple([i \in 1..Len(M) |-> Tuple([j \in 1..Len(M) |-> RMul(c, M[i][j])])])

MatAdd(A, B) == Tuple([i \in 1..Len(A) |-> Tuple([j \in 1..Len(A) |-> RAdd(A[i][j], B[i][j])])])

\* np.dot(matrix, matrix)
MatMul(A, B) ==
    Tuple([i \in 1..Len(A) |-> Tuple([j \in 1..Len(A) |->
        RSum([k \in 1..Len(A) |-> RMul(A[i][k], B[k][j])])])])

\* np.dot(matrix, column vector)
MatVec(A, v) ==
    Tuple([i \in 1..Len(A) |-> RSum([k \in 1..Len(A) |-> RMul(A[i][k], v[k])])])

VecAdd(u, v) == Tuple([i \in 1..Len(u) |-> RAdd(u[i], v[i])])

\* M without row r and column c
Minor(M, r, c) ==
    Tuple([i \in 1..(Len(M) - 1) |-> Tuple([j \in 1..(Len(M) - 1) |->
        M[IF i < r THEN i ELSE i + 1][IF j < c THEN j ELSE j + 1]])])

RECURSIVE Det(_)
Det(M) ==
    IF Len(M) = 0 THEN One
    ELSE IF Len(M) = 1 THEN M[1][1]
    ELSE RSum([j \in 1..Len(M) |->
            RMul(IF j % 2 = 1 THEN M[1][j] ELSE RNeg(M[1][j]), Det(Minor(M, 1, j)))])

Singular(M) == Det(M) = Zero

\* np.linalg.inv(M) for a non-singular M (the caller raises LinAlgError
\* otherwise): the adjugate over the determinant.
Inv(M) ==
    LET d == Det(M)
    IN  Tuple([i \in 1..Len(M) |-> Tuple([j \in 1..Len(M) |->
            RDiv(IF (i + j) % 2 = 0 THEN Det(Minor(M, j, i))
                 ELSE RNeg(Det(Minor(M, j, i))), d)])])

\***************************************************************************
\* Ordered mappings (Python dict): a sequence of [k |-> key, v |-> value]
\* in insertion order.
\***************************************************************************
Keys(d) == Tuple([i \in 1..Len(d) |-> d[i].k])

\* list(d.values())
Values(d) == Tuple([i \in 1..Len(d) |-> d[i].v])

Lookup(d, key) == (CHOOSE i \in 1..Len(d) : d[i].k = key)

Get(d, key) == d[Lookup(d, key)].v

\***************************************************************************
\* black_litterman_model.py
\***************************************************************************

\* Series.pct_change().dropna() of one price column: the first row, which
\* has no predecessor, is dropped.
PctChange(prices) ==
    Tuple([i \in 1..(Len(prices) - 1) |-> RSub(Rat(prices[i + 1], prices[i]), One)])

Mean(xs) == RDiv(RSum(xs), Rat(Len(xs), 1))

\* x - mean(x), elementwise
Centered(xs) == LET mu == Mean(xs) IN Tuple([k \in 1..Len(xs) |-> RSub(xs[k], mu)])

\* sample covariance (divisor n - 1) of two centered series
SampleCov(dx, dy) ==
    RDiv(RSum([k \in 1..Len(dx) |-> RMul(dx[k], dy[k])]), Rat(Len(dx) - 1, 1))

\* DataFrame.cov(): the sample covariance of every pair of columns, in
\* column order.
Covariance(frame) ==
    LET dev == Tuple([a \in 1..Len(frame) |-> Centered(frame[a].v)])
    IN  Tuple([a \in 1..Len(dev) |-> Tuple([b \in 1..Len(dev) |-> SampleCov(dev[a], dev[b])])])

\* historical_data['Adj Close'].pct_change().dropna().cov()
CovMatrix(historical_data) ==
    Covariance(Tuple([a \in 1..Len(historical_data) |->
        [k |-> historical_data[a].k, v |-> PctChange(historical_data[a].v)]]))

\* (mutant) the views taken in reverse order
ViewVectorReversed(investor_views) ==
    [i \in 1..Len(investor_views) |-> investor_views[Len(investor_views) + 1 - i].v]

\* Q = np.array(list(investor_views.values())).reshape(-1, 1)
ViewVector(investor_views) == Values(investor_views)

\* np.array(list(market_returns.values())).reshape(-1, 1)
EquilibriumVector(market_returns) == Values(market_returns)

\* (mutant) omega without tau
OmegaWithoutTau(tau, view_confidences) ==
    Diag([i \in 1..Len(view_confidences) |-> RInv(view_confidences[i].v)])

\* (mutant) omega = tau * confidence
OmegaTimesConfidence(tau, view_confidences) ==
    Diag([i \in 1..Len(view_confidences) |-> RMul(tau, view_confidences[i].v)])

\* omega = np.diag([tau / confidence for confidence in view_confidences.values()])
Omega(tau, view_confidences) ==
    Diag(Tuple([i \in 1..Len(view_confidences) |-> RDiv(tau, view_confidences[i].v)]))

Raised(e) == [kind |-> "error", error |-> e]
Returned(v) == [kind |-> "ok", value |-> v]

\* (mutant) a singular matrix is handed back instead of raising
LinalgInvSilent(M) == Returned(IF Singular(M) THEN M ELSE Inv(M))

\* np.linalg.inv: raises LinAlgError on a singular matrix
LinalgInv(M) == IF Singular(M) THEN Raised("LinAlgError") ELSE Returned(Inv(M))

\* (mutant) the views enter without their Omega^-1 weight
PosteriorMeanUnweighted(P, Q, pi, inv_omega, inv_tcov, M) ==
    MatVec(M, VecAdd(MatVec(inv_tcov, pi), MatVec(Transpose(P), Q)))

\* The Black-Litterman formula, once the three inverses exist.
PosteriorMean(P, Q, pi, inv_omega, inv_tcov, M) ==
    MatVec(M, VecAdd(MatVec(inv_tcov, pi),
                     MatVec(Transpose(P), MatVec(inv_omega, Q))))

black_litterman_adjustment(market_returns, investor_views, view_confidences, historical_data, tau) ==
    LET num_assets == Len(market_returns)
        P == Eye(num_assets)
        Q == ViewVector(investor_views)
        cov_matrix == CovMatrix(historical_data)
    IN  IF \E i \in 1..Len(view_confidences) : view_confidences[i].v = Zero
        THEN Raised("ZeroDivisionError")
        ELSE
        LET omega == Omega(tau, view_confidences)
            inv_omega == LinalgInv(omega)
            inv_tcov == LinalgInv(Scale(tau, cov_matrix))
        IN  IF inv_omega.kind = "error" THEN inv_omega
            ELSE IF inv_tcov.kind = "error" THEN inv_tcov
            ELSE
            LET M == LinalgInv(MatAdd(inv_tcov.value,
                        MatMul(Transpose(P), MatMul(inv_omega.value, P))))
            IN  IF M.kind = "error" THEN M
                ELSE Returned(PosteriorMean(P, Q, EquilibriumVector(market_returns),
                                            inv_omega.value, inv_tcov.value, M.value))

\* (mutant) each cap is divided by the largest cap instead of the total
get_market_returns_by_largest(market_caps, index_return) ==
    LET largest == CHOOSE c \in {market_caps[i].v : i \in 1..Len(market_caps)} :
                       \A i \in 1..Len(market_caps) : RLe(market_caps[i].v, c)
    IN  IF largest = Zero
        THEN Raised("ZeroDivisionError")
        ELSE Returned(Tuple([i \in 1..Len(market_caps) |->
                [k |-> market_caps[i].k,
                 v |-> RMul(RDiv(market_caps[i].v, largest), index_return)]]))

\* get_market_returns: a new dict, one entry per entry of market_caps, in
\* its order.  A zero total is a ZeroDivisionError.
get_market_returns(market_caps, index_return) ==
    LET total_market_cap == RSum(Values(market_caps))
    IN  IF total_market_cap = Zero /\ Len(market_caps) > 0
        THEN Raised("ZeroDivisionError")
        ELSE Returned(Tuple([i \in 1..Len(market_caps) |->
                [k |-> market_caps[i].k,
                 v |-> RMul(RDiv(market_caps[i].v, total_market_cap), index_return)]]))


\***************************************************************************
\* State
\***************************************************************************
VARIABLES
    market_returns,     \* dict ticker -> equilibrium return
    investor_views,     \* dict ticker -> view
    view_confidences,   \* dict ticker -> confidence
    historical_data,    \* 'Adj Close' columns: dict ticker -> price series
    tau,
    adjusted_returns,   \* outcome of black_litterman_adjustment, or NotCalled
    market_caps,        \* dict ticker -> market capitalization
    index_return,
    equilibrium,        \* outcome of get_market_returns, or NotCalled
    call,               \* the local variables of the running generate_investor_views
    views               \* per ticker, the outcome of its generate_investor_views call

blVars == <<market_returns, investor_views, view_confidences, historical_data, tau, adjusted_returns>>
mrVars == <<market_caps, index_return, equilibrium>>
viewVars == <<call, views>>

vars == <<blVars, mrVars, viewVars>>

NotCalled == [kind |-> "none"]

\***************************************************************************
\* Inputs of the blender
\***************************************************************************
Tickers == {"A", "B"}

\* every key order of a dict over Tickers
Orders == {o \in [1..Cardinality(Tickers) -> Tickers] : \A i, j \in DOMAIN o : i # j => o[i] # o[j]}

DictOf(order, f) == Tuple([i \in 1..Len(order) |-> [k |-> order[i], v |-> f[order[i]]]])

\* the price table: NumRows rows of adjusted closes, one column per ticker
NumRows == 4
PriceChoices == {1, 2}
PriceTables == [Tickers -> [1..NumRows -> PriceChoices]]

EquilibriumOf == [t \in Tickers |-> IF t = "A" THEN Rat(5, 100) ELSE Rat(8, 100)]
ConfidenceOf == [t \in Tickers |-> IF t = "A" THEN Rat(1, 10) ELSE One]
PositiveConfidences == {Rat(1, 10), One}
ConfidenceChoices == {Rat(-2, 1), Zero} \cup PositiveConfidences
DefaultTau == Rat(25, 1000)
PositiveTaus == {DefaultTau, Rat(1, 4)}
TauChoices == {Zero} \cup PositiveTaus

\***************************************************************************
\* machine_learning_strategies.py
\*
\* Returns, R^2 and confidences are fixed-point numbers, in units of
\* 1 / Resolution.  A feature table is one feature column of small integers:
\* StandardScaler and SimpleImputer treat every column alike.  The fitted
\* regressors and r2_score are library code: their outputs (the mean weekly
\* prediction, R^2) are inputs of the model.
\***************************************************************************
Resolution == 10000
Fix(num, den) == (num * Resolution) \div den

MinRows == 100
LongWindow == 50
ShiftLag == 5
Weeks == 52

Max2(a, b) == IF a < b THEN b ELSE a
Min2(a, b) == IF b < a THEN b ELSE a

\* create_additional_features(...).dropna(): the rows before the longest
\* rolling window (SMA_50) is full are dropped
FeatureRows(raw) == Max2(0, raw - (LongWindow - 1))

\* prepare_data_for_ml(...).dropna(): the last rows have no shifted target
TargetRows(rows) == Max2(0, rows - ShiftLag)

\* sum of f[i] over the rows lo..hi that are in S
RECURSIVE SumOver(_, _, _, _)
SumOver(f, S, lo, hi) ==
    IF lo > hi THEN 0
    ELSE IF lo = hi THEN (IF lo \in S THEN f[lo] ELSE 0)
    ELSE LET mid == (lo + hi) \div 2
         IN  SumOver(f, S, lo, mid) + SumOver(f, S, mid + 1, hi)

Squares(x) == [i \in DOMAIN x |-> x[i] * x[i]]

\* StandardScaler.fit on the rows S of column x: mean_ and var_ (the
\* population variance)
FitScaler(x, S) ==
    LET n == Cardinality(S)
        sx == SumOver(x, S, 1, Len(x))
        sxx == SumOver(Squares(x), S, 1, Len(x))
    IN  [mean |-> Rat(sx, n), var |-> Rat(n * sxx - sx * sx, n * n), fit_rows |-> S]

NoScaler == [mean |-> Zero, var |-> Zero, fit_rows |-> {}]

Sign(r) == IF r[1] > 0 THEN 1 ELSE IF r[1] < 0 THEN -1 ELSE 0

\* (v - mean_) / sqrt(var_), written as its sign and its square; a zero
\* variance scales by 1
Standardized(v, scaler) ==
    LET d == RSub(Rat(v, 1), scaler.mean)
    IN  <<Sign(d), RDiv(RMul(d, d), IF scaler.var = Zero THEN One ELSE scaler.var)>>

\* StandardScaler.transform
Transform(scaler, x) == Tuple([i \in 1..Len(x) |-> Standardized(x[i], scaler)])

AllRows(x) == 1..Len(x)

\* StandardScaler.fit_transform raises ValueError on a table without rows
ScalerRejects(x) == Len(x) = 0

\* scaler = StandardScaler(); X_scaled = scaler.fit_transform(X)
FitTransformScaler(x) == FitScaler(x, AllRows(x))

\* (mutant) fewer than or exactly 100 rows
InsufficientDataInclusive(n) == n <= MinRows

\* if len(X) < 100
InsufficientData(n) == n < MinRows

\* train_test_split(test_size=0.3): n_test = ceil(0.3 * n)
NTest(n) == (3 * n + 9) \div 10

\* The test rows of the seeded shuffle: NTest(n) of the n rows.  The
\* permutation is the library's; the model takes a window of rows at any of
\* a few offsets.
TestRows(n, offset) == {((offset + j) % n) + 1 : j \in 0..(NTest(n) - 1)}

\* model selection by model_type
SelectModel(model_type) ==
    IF model_type = "Random Forest" THEN "RandomForestRegressor"
    ELSE IF model_type = "Gradient Boosting" THEN "GradientBoostingRegressor"
    ELSE "LinearRegression"

\* a * b of two non-negative fixed-point numbers
MulFix(a, b) == (a * b) \div Resolution

\* Every power is at most Saturation once it reaches it: the clip that
\* follows maps all such values alike.
Saturation == 4 * Resolution

Saturate(x) == Min2(Saturation, x)

\* b ** k for b >= 0, by squaring
RECURSIVE PowFix(_, _)
PowFix(b, k) ==
    IF k = 0 THEN Resolution
    ELSE IF k % 2 = 0
         THEN LET h == PowFix(b, k \div 2) IN Saturate(MulFix(h, h))
         ELSE Saturate(MulFix(PowFix(b, k - 1), Saturate(b)))

\* (1 + predicted_weekly_return) ** 52 - 1; the exponent is even
Annualize(weekly) == PowFix(Abs(Resolution + weekly), Weeks) - Resolution

\* (mutant) no clipping
ClipNot(x, lo, hi) == x

\* np.clip(x, lo, hi)
Clip(x, lo, hi) == IF x < lo THEN lo ELSE IF x > hi THEN hi ELSE x

LowerClip == -Fix(1, 2)
UpperClip == Fix(2, 1)
MinConfidence == Fix(1, 100)
MaxConfidence == Fix(1, 1)

\* Python's min(a, b) and max(a, b)
PyMin(a, b) == IF b < a THEN b ELSE a
PyMax(a, b) == IF b > a THEN b ELSE a

\* r2 = max(0.01, min(1.0, r2))
get_model_confidence(r2) == PyMax(MinConfidence, PyMin(MaxConfidence, r2))

\* return 0.0, 0.1
Neutral == <<0, Fix(1, 10)>>

\* (mutant) the download is outside the try block
InTryBlockAfterDownload(step) == step # "download"

\* try: ... except Exception: every step of the body is inside the try
InTryBlock(step) == TRUE

\* what a call leaves behind: the returned pair (or a propagated exception)
\* and, for the properties, how it got there
Outcome(kind, value, path, c) ==
    [kind |-> kind, value |-> value, path |-> path, failed_at |-> IF path = "except" THEN c.pc ELSE "none",
     rows |-> c.rows, fitted |-> c.fitted, weekly |-> c.weekly, r2 |-> c.r2]

IdleCall ==
    [pc |-> "idle", ticker |-> "none", stock_data |-> -1, rows |-> -1, features |-> <<>>,
     scaler |-> NoScaler, X |-> <<>>, test_idx |-> {}, imputer_rows |-> {}, model |-> "none",
     fitted |-> FALSE, weekly |-> 0, annual |-> 0, r2 |-> 0, confidence |-> 0]

\***************************************************************************
\* Each specification drives one component; the others stay idle.
\***************************************************************************

BlenderIdle ==
    /\ market_returns = <<>> /\ investor_views = <<>> /\ view_confidences = <<>>
    /\ historical_data = <<>> /\ tau = Zero /\ adjusted_returns = NotCalled

EstimatorIdle == market_caps = <<>> /\ index_return = Zero /\ equilibrium = NotCalled

GeneratorIdle == call = IdleCall /\ views = [t \in Tickers |-> NotCalled]

BlenderInputs(om, oi, oc, oh, prices, q, c, t) ==
    /\ market_returns = DictOf(om, EquilibriumOf)
    /\ investor_views = DictOf(oi, q)
    /\ view_confidences = DictOf(oc, c)
    /\ historical_data = DictOf(oh, prices)
    /\ tau = t
    /\ adjusted_returns = NotCalled
    /\ EstimatorIdle
    /\ GeneratorIdle

CanonicalOrder == CHOOSE o \in Orders : o[1] = "A"
SwappedEquilibrium == [x \in Tickers |-> EquilibriumOf[IF x = "A" THEN "B" ELSE "A"]]

\* views equal to the equilibrium returns, and views that differ from them
ViewChoices == {EquilibriumOf, SwappedEquilibrium}

\* The inputs the blender is called with: any four key orders with the
\* signature's default tau and one confidence per ticker; and, with the four
\* key orders equal, every combination of positive confidences and taus,
\* and every combination of confidences with a zero or default tau.
InitBL ==
    \/ \E om, oi, oc, oh \in Orders, prices \in PriceTables, q \in ViewChoices :
          BlenderInputs(om, oi, oc, oh, prices, q, ConfidenceOf, DefaultTau)
    \/ \E prices \in PriceTables, q \in ViewChoices,
          c \in [Tickers -> PositiveConfidences], t \in PositiveTaus :
          BlenderInputs(CanonicalOrder, CanonicalOrder, CanonicalOrder, CanonicalOrder, prices, q, c, t)
    \/ \E prices \in PriceTables, c \in [Tickers -> ConfidenceChoices], t \in {Zero, DefaultTau} :
          BlenderInputs(CanonicalOrder, CanonicalOrder, CanonicalOrder, CanonicalOrder, prices, SwappedEquilibrium, c, t)

BlackLittermanAdjustment ==
    /\ adjusted_returns = NotCalled
    /\ adjusted_returns' = black_litterman_adjustment(market_returns, investor_views, view_confidences, historical_data, tau)
    /\ UNCHANGED <<market_returns, investor_views, view_confidences, historical_data, tau>>
    /\ UNCHANGED <<mrVars, viewVars>>

NextBL == BlackLittermanAdjustment

SpecBL == InitBL /\ [][NextBL]_vars

\***************************************************************************
\* Equilibrium return estimator
\***************************************************************************
CapChoices == {0, 300, 700, 1000}
IndexReturnChoices == {Rat(-1, 10), Zero, Rat(1, 10), Rat(1, 4)}

InitMR ==
    \E o \in Orders, caps \in [Tickers -> CapChoices], r \in IndexReturnChoices :
        /\ market_caps = DictOf(o, [t \in Tickers |-> Rat(caps[t], 1)])
        /\ index_return = r
        /\ equilibrium = NotCalled
        /\ BlenderIdle
        /\ GeneratorIdle

GetMarketReturns ==
    /\ equilibrium = NotCalled
    /\ equilibrium' = get_market_returns(market_caps, index_return)
    /\ UNCHANGED <<market_caps, index_return, blVars, viewVars>>

NextMR == GetMarketReturns

SpecMR == InitMR /\ [][NextMR]_vars

\* C4: for a non-zero total the result has the tickers of market_caps in
\* the same order, each with (its cap / the sum of all caps) * index_return,
\* stated as value * total = cap * index_return; {"A": 300, "B": 700} with
\* 0.10 gives {"A": 0.03, "B": 0.07}.
C4_CapWeightedShare ==
    (equilibrium # NotCalled /\ RSum(Values(market_caps)) # Zero) =>
        /\ equilibrium.kind = "ok"
        /\ Keys(equilibrium.value) = Keys(market_caps)
        /\ \A i \in 1..Len(market_caps) :
               RMul(equilibrium.value[i].v, RSum(Values(market_caps)))
                   = RMul(market_caps[i].v, index_return)
        /\ (market_caps = <<[k |-> "A", v |-> Rat(300, 1)], [k |-> "B", v |-> Rat(700, 1)]>>
                /\ index_return = Rat(10, 100))
             => equilibrium.value = <<[k |-> "A", v |-> Rat(3, 100)], [k |-> "B", v |-> Rat(7, 100)]>>

\* C4, second part: the call leaves the input mapping as it was.
C4_InputNotModified == [][market_caps' = market_caps]_vars

\* C4: get_market_returns gives every ticker, in the input's order,
\* (its cap / the sum of all caps) * index_return, and leaves the input
\* mapping unmodified.
C4_EquilibriumReturns == []C4_CapWeightedShare /\ C4_InputNotModified

C4_Witness ==
    /\ equilibrium.kind = "ok"
    /\ market_caps = <<[k |-> "B", v |-> Rat(700, 1)], [k |-> "A", v |-> Rat(300, 1)]>>
    /\ index_return = Rat(10, 100)
    /\ equilibrium.value = <<[k |-> "B", v |-> Rat(7, 100)], [k |-> "A", v |-> Rat(3, 100)]>>

\***************************************************************************
\* Properties of the blender
\***************************************************************************
BlendOk == adjusted_returns.kind = "ok"
Posterior == adjusted_returns.value
AssetAt(i) == market_returns[i].k
Positions == 1..Len(market_returns)

AlignedKeys ==
    /\ Keys(investor_views) = Keys(market_returns)
    /\ Keys(view_confidences) = Keys(market_returns)
    /\ Keys(historical_data) = Keys(market_returns)

\* covariance of the returns of two tickers, each found by its name
CovOf(t, u) ==
    SampleCov(Centered(PctChange(Get(historical_data, t))),
              Centered(PctChange(Get(historical_data, u))))

\* The posterior at position i is the Black-Litterman posterior of the
\* ticker at position i: with every input found by ticker,
\*   x_t - pi_t = SUM_u cov(t, u) * confidence_u * (view_u - x_u),
\* which is (tau Sigma)^-1 (x - pi) = Omega^-1 (Q - x) with Omega = tau / confidence.
PosteriorOfTicker ==
    LET cov == [t \in Tickers |-> [u \in Tickers |-> CovOf(t, u)]]
    IN  \A i \in Positions :
            RSub(Posterior[i], Get(market_returns, AssetAt(i)))
              = RSum([j \in Positions |->
                    RMul(RMul(cov[AssetAt(i)][AssetAt(j)], Get(view_confidences, AssetAt(j))),
                         RSub(Get(investor_views, AssetAt(j)), Posterior[j]))])

\* C5 (as stated): whatever the key orders of the three mappings and the
\* column order of the price table, position i of the result is the posterior
\* of the ticker at position i, computed from that ticker's own equilibrium
\* return, view, confidence and covariances.
C5_OrderedByTickerAnyOrder == BlendOk => PosteriorOfTicker

\* C5 (amended): when the three mappings and the price table list the
\* tickers in the same order, position i of the result is the posterior of
\* the ticker at position i.
C5_OrderedByTickerWhenAligned ==
    (BlendOk /\ AlignedKeys) => PosteriorOfTicker

C5_Witness ==
    /\ BlendOk /\ AlignedKeys
    /\ Keys(market_returns) = <<"B", "A">>
    /\ Posterior[1] # Posterior[2]
    /\ Posterior # Values(market_returns)

\* C6: when the view vector equals the equilibrium vector, the posterior
\* equals the equilibrium vector (no shift), for every invertible
\* covariance, tau > 0 and positive confidences.
C6_NoShiftWhenViewsAgree ==
    (BlendOk /\ Values(investor_views) = Values(market_returns))
        => Posterior = Values(market_returns)

C6_Witness ==
    /\ BlendOk
    /\ Values(investor_views) = Values(market_returns)
    /\ Values(market_returns) = <<Rat(5, 100), Rat(8, 100)>>
    /\ tau # DefaultTau
    /\ view_confidences[1].v # view_confidences[2].v


RLt(x, y) == RLe(x, y) /\ x # y
RMax(x, y) == IF RLe(x, y) THEN y ELSE x
Dist(x, y) == RAbs(RSub(x, y))
PositiveInputs ==
    /\ RLt(Zero, tau)
    /\ \A i \in 1..Len(view_confidences) : RLt(Zero, view_confidences[i].v)

\* the call repeated with other confidences, and with another tau
WithConfidences(c) ==
    black_litterman_adjustment(market_returns, investor_views,
        [i \in 1..Len(view_confidences) |-> [k |-> view_confidences[i].k, v |-> c[view_confidences[i].k]]],
        historical_data, tau)

WithTau(t) ==
    black_litterman_adjustment(market_returns, investor_views, view_confidences, historical_data, t)

\* C7 (as stated): when every confidence is lowered (all still positive),
\* no asset's posterior moves away from its view.
C7_LowerConfidenceNearerView ==
    (BlendOk /\ PositiveInputs) =>
        \A c \in [Tickers -> PositiveConfidences] :
            (\A i \in Positions : RLt(c[view_confidences[i].k], view_confidences[i].v)) =>
                LET lower == WithConfidences(c)
                IN  /\ lower.kind = "ok"
                    /\ \A i \in Positions :
                           RLe(Dist(lower.value[i], investor_views[i].v),
                               Dist(Posterior[i], investor_views[i].v))

AbsSum(M) == RSum([i \in 1..Len(M) |-> RSum([j \in 1..Len(M) |-> RAbs(M[i][j])])])
LargestConfidence == LET c == Values(view_confidences) IN IF Len(c) = 2 THEN RMax(c[1], c[2]) ELSE c[1]
ViewGap == RSum([j \in Positions |-> Dist(investor_views[j].v, market_returns[j].v)])

\* C7 (amended): as the confidences decrease toward 0 the posterior converges
\* to the equilibrium returns, not to the views: every asset's distance from
\* its equilibrium return is at most
\*   (sum of |covariances|) * (largest confidence) * (sum of |view - equilibrium|),
\* which vanishes with the largest confidence.
C7_LowConfidenceNearEquilibrium ==
    (BlendOk /\ PositiveInputs) =>
        LET bound == RMul(RMul(AbsSum(CovMatrix(historical_data)), LargestConfidence), ViewGap)
        IN  \A i \in Positions : RLe(Dist(Posterior[i], market_returns[i].v), bound)

C7_Witness ==
    /\ BlendOk /\ PositiveInputs
    /\ \A i \in Positions : view_confidences[i].v = Rat(1, 10)
    /\ \A i \in Positions : Posterior[i] # market_returns[i].v
    /\ \A i \in Positions : Posterior[i] # investor_views[i].v

ZeroConfidence == \E i \in 1..Len(view_confidences) : view_confidences[i].v = Zero

\* One of the three matrices the call inverts is singular.  The precision
\* sum (tau Sigma)^-1 + Omega^-1 is singular exactly when I + Sigma C is,
\* C the diagonal matrix of the confidences.
SingularInput ==
    LET cov == CovMatrix(historical_data)
    IN  \/ Singular(Diag([i \in 1..Len(view_confidences) |-> RDiv(tau, view_confidences[i].v)]))
        \/ Singular(Scale(tau, cov))
        \/ Singular(MatAdd(Eye(Len(market_returns)), MatMul(cov, Diag(Values(view_confidences)))))

\* C9: a call with a zero confidence or with a singular tau * covariance,
\* Omega or precision sum ends in an error; it returns no posterior.
C9_NoDegradationPath ==
    adjusted_returns.kind = "ok" => ~(ZeroConfidence \/ SingularInput)

\* the precision sum alone is singular
C9_Witness ==
    /\ adjusted_returns.kind = "error"
    /\ ~ZeroConfidence
    /\ tau # Zero
    /\ ~Singular(CovMatrix(historical_data))

\***************************************************************************
\* View generator: generate_investor_views, called for one ticker after
\* another
\***************************************************************************
MaxRawRows == 156
RawRowChoices == {0, MinRows + LongWindow + ShiftLag - 2, MinRows + LongWindow + ShiftLag - 1, MaxRawRows}
FeatureSeeds == {1, 2}
FeatureColumn(n, seed) == Tuple([i \in 1..n |-> (i * seed) % 3])
FeatureValues == 0..2
ShuffleOffsets == {0, 17, 60}
ModelTypes == {"Gradient Boosting", "Random Forest", "Linear Regression"}
WeeklyChoices == {-Fix(2, 1), -Fix(5, 100), 0, Fix(1, 1000), Fix(3, 100)}
R2Choices == {-Fix(1, 2), Fix(5, 1000), Fix(1, 2), Fix(1, 1), Fix(12, 10)}

InitViews ==
    /\ GeneratorIdle
    /\ BlenderIdle
    /\ EstimatorIdle

Step(c) == UNCHANGED <<views, blVars, mrVars>> /\ call' = c

Finish(outcome) ==
    /\ views' = [views EXCEPT ![call.ticker] = outcome]
    /\ call' = IdleCall
    /\ UNCHANGED <<blVars, mrVars>>

GenerateInvestorViews(t) ==
    /\ call.pc = "idle"
    /\ views[t] = NotCalled
    /\ Step([IdleCall EXCEPT !.pc = "download", !.ticker = t])

DownloadStockData ==
    /\ call.pc = "download"
    /\ \E n \in RawRowChoices : Step([call EXCEPT !.stock_data = n, !.pc = "features"])

CreateAdditionalFeatures ==
    /\ call.pc = "features"
    /\ Step([call EXCEPT !.rows = FeatureRows(call.stock_data), !.pc = "target"])

PrepareDataForMl ==
    /\ call.pc = "target"
    /\ \E seed \in FeatureSeeds :
          Step([call EXCEPT !.rows = TargetRows(call.rows),
                            !.features = FeatureColumn(TargetRows(call.rows), seed),
                            !.pc = "scale"])

StandardScale ==
    /\ call.pc = "scale"
    /\ ~ScalerRejects(call.features)
    /\ LET scaler == FitTransformScaler(call.features)
       IN  Step([call EXCEPT !.scaler = scaler, !.X = Transform(scaler, call.features), !.pc = "filter"])

RemoveNaN ==
    /\ call.pc = "filter"
    /\ IF InsufficientData(Len(call.X))
       THEN Finish(Outcome("returned", Neutral, "short", call))
       ELSE Step([call EXCEPT !.pc = "split"])

TrainTestSplit ==
    /\ call.pc = "split"
    /\ \E offset \in ShuffleOffsets :
          Step([call EXCEPT !.test_idx = TestRows(Len(call.X), offset), !.pc = "impute"])

Impute ==
    /\ call.pc = "impute"
    /\ Step([call EXCEPT !.imputer_rows = AllRows(call.X) \ call.test_idx, !.pc = "fit"])

TrainModel ==
    /\ call.pc = "fit"
    /\ \E model_type \in ModelTypes :
          Step([call EXCEPT !.model = SelectModel(model_type), !.fitted = TRUE, !.pc = "predict"])

PredictFutureReturns ==
    /\ call.pc = "predict"
    /\ \E w \in WeeklyChoices :
          Step([call EXCEPT !.weekly = w, !.annual = Clip(Annualize(w), LowerClip, UpperClip),
                            !.pc = "confidence"])

GetModelConfidence ==
    /\ call.pc = "confidence"
    /\ \E r \in R2Choices :
          Step([call EXCEPT !.r2 = r, !.confidence = get_model_confidence(r), !.pc = "return"])

Return ==
    /\ call.pc = "return"
    /\ Finish(Outcome("returned", <<call.annual, call.confidence>>, "normal", call))

TrySteps == {"download", "features", "target", "scale", "filter", "split", "impute", "fit",
             "predict", "confidence", "return"}

\* the running step raises an exception
StepRaises ==
    /\ call.pc \in TrySteps
    /\ IF InTryBlock(call.pc)
       THEN Finish(Outcome("returned", Neutral, "except", call))
       ELSE Finish(Outcome("raised", <<>>, "except", call))

NextViews ==
    \/ \E t \in Tickers : GenerateInvestorViews(t)
    \/ DownloadStockData
    \/ CreateAdditionalFeatures
    \/ PrepareDataForMl
    \/ StandardScale
    \/ RemoveNaN
    \/ TrainTestSplit
    \/ Impute
    \/ TrainModel
    \/ PredictFutureReturns
    \/ GetModelConfidence
    \/ Return
    \/ StepRaises

SpecViews == InitViews /\ [][NextViews]_vars

\***************************************************************************
\* Properties of the view generator
\***************************************************************************
Called(t) == views[t] # NotCalled

\* C1: a call that finds fewer than 100 valid rows returns exactly
\* (0.0, 0.1) and fits no model; the short-circuit is taken only with fewer
\* than 100 rows, and no later step runs with fewer.
C1_InsufficientDataShortCircuit ==
    /\ \A t \in Tickers :
          Called(t) =>
              /\ (views[t].rows >= 0 /\ views[t].rows < MinRows) =>
                     (views[t].kind = "returned" /\ views[t].value = Neutral /\ ~views[t].fitted)
              /\ views[t].path = "short" => views[t].rows < MinRows
              /\ views[t].rows >= MinRows => views[t].path # "short"
    /\ call.pc \in {"split", "impute", "fit", "predict", "confidence", "return"} => call.rows >= MinRows
    /\ call.fitted => call.rows >= MinRows

C1_Witness ==
    \E t, u \in Tickers :
        /\ Called(t) /\ views[t].path = "short" /\ views[t].rows = MinRows - 1
        /\ Called(u) /\ views[u].path = "normal" /\ views[u].rows = MinRows /\ views[u].fitted

\* C2, first part: a call in which a step raised did not propagate the
\* exception: it returned exactly (0.0, 0.1).
C2_ExceptionGivesNeutral ==
    \A t \in Tickers :
        Called(t) =>
            /\ views[t].kind = "returned"
            /\ views[t].path = "except" => views[t].value = Neutral

\* C2, second part: a ticker's outcome, once there, is changed by no later
\* call, and a call starts from fresh local variables.
C2_OtherAssetsUnaffected ==
    [][/\ \A t \in Tickers : Called(t) => views'[t] = views[t]
       /\ call.pc = "idle" => call = IdleCall]_vars

\* C2: an exception raised by any step of the pipeline is not propagated
\* but turned into (0.0, 0.1), and a failing call for one asset leaves the
\* outcomes of the other assets' calls as they were.
C2_ExceptionContained == []C2_ExceptionGivesNeutral /\ C2_OtherAssetsUnaffected

C2_Witness ==
    \E t, u \in Tickers :
        /\ Called(t) /\ views[t].path = "normal" /\ views[t].value # Neutral
        /\ Called(u) /\ views[u].path = "except" /\ views[u].failed_at = "fit"

\* C3: every returned pair has its return in [-0.5, 2.0] and its
\* confidence in [0.01, 1.0]; an R^2 below 0.01 gives 0.01 and one above
\* 1.0 gives 1.0.
C3_ReturnAndConfidenceBounded ==
    \A t \in Tickers :
        (Called(t) /\ views[t].kind = "returned") =>
            /\ LowerClip <= views[t].value[1] /\ views[t].value[1] <= UpperClip
            /\ MinConfidence <= views[t].value[2] /\ views[t].value[2] <= MaxConfidence
            /\ views[t].value[2] # 0
            /\ (views[t].path = "normal" /\ views[t].r2 < MinConfidence) => views[t].value[2] = MinConfidence
            /\ (views[t].path = "normal" /\ views[t].r2 > MaxConfidence) => views[t].value[2] = MaxConfidence

C3_Witness ==
    \E t, u \in Tickers :
        /\ Called(t) /\ views[t].path = "normal"
        /\ views[t].weekly = Fix(3, 100) /\ views[t].value[1] = UpperClip
        /\ views[t].r2 < 0 /\ views[t].value[2] = MinConfidence
        /\ Called(u) /\ views[u].path = "normal"
        /\ views[u].weekly = -Fix(5, 100) /\ views[u].value[1] = LowerClip
        /\ views[u].r2 > MaxConfidence /\ views[u].value[2] = MaxConfidence

TrainRows == AllRows(call.features) \ call.test_idx

\* C10: once the rows are split, the scaler's mean and variance are those
\* of the training rows alone, and no value of a test row has any effect on
\* the standardized training rows.
C10_ScalerFittedOnTrainingSplit ==
    call.pc = "impute" =>
        /\ call.scaler.fit_rows = TrainRows
        /\ call.scaler.mean = FitScaler(call.features, TrainRows).mean
        /\ call.scaler.var = FitScaler(call.features, TrainRows).var
        /\ \A r \in call.test_idx, v \in FeatureValues :
               LET other == [call.features EXCEPT ![r] = v]
                   scaled == Transform(FitTransformScaler(other), other)
               IN  \A i \in TrainRows : scaled[i] = call.X[i]

====
